---------------------------- MODULE Spec2Model ----------------------------
(***************************************************************************)
(* A model of logic-interactive.py: the propositional knowledge base with  *)
(* its recursive-descent parser, three-valued evaluator, forward chaining  *)
(* and backward chaining.  One action per command of the interactive       *)
(* shell (tell, ask, clear); every method of KnowledgeBase is an operator  *)
(* that takes the object's fields as the record `self`.                    *)
(*                                                                         *)
(* Python's True / False / None are the strings "True", "False", "None".   *)
(***************************************************************************)
EXTENDS Integers, Sequences, FiniteSets, TLC

VARIABLES facts_true, facts_false, symbol_desc, rules, pc, cmd, out

vars == <<facts_true, facts_false, symbol_desc, rules, pc, cmd, out>>

(***************************************************************************)
(* Bounds of the model.                                                    *)
(***************************************************************************)
\* Longest rule list: tell stops accepting rules at this length.
MaxRules == 2

\* Deepest nesting of _backward_chain calls the interpreter is given; a
\* deeper recursion ends the call with RecursionError.
MaxRecursion == 8

\* Longest token sequence handed to the parser on its own.
MaxTokens == 5

(***************************************************************************)
(* Expression classes (lines 6-26).                                        *)
(***************************************************************************)
Symbol(name) == [type |-> "Symbol", name |-> name]

Not(expr) == [type |-> "Not", expr |-> expr]

And(left, right) == [type |-> "And", left |-> left, right |-> right]

Or(left, right) == [type |-> "Or", left |-> left, right |-> right]

Implies(left, right) == [type |-> "Implies", left |-> left, right |-> right]

\* __repr__ of the five classes: the text _equal and the visited set compare.
RECURSIVE Repr(_)
Repr(expr) ==
    CASE expr.type = "Symbol"  -> expr.name
      [] expr.type = "Not"     -> "(not " \o Repr(expr.expr) \o ")"
      [] expr.type = "And"     -> "(" \o Repr(expr.left) \o " and " \o Repr(expr.right) \o ")"
      [] expr.type = "Or"      -> "(" \o Repr(expr.left) \o " or " \o Repr(expr.right) \o ")"
      [] expr.type = "Implies" -> "(" \o Repr(expr.left) \o " implies " \o Repr(expr.right) \o ")"

(***************************************************************************)
(* Parser (lines 31-80).  A statement is its token sequence, what          *)
(* re.findall(r'\w+|[()]', text) returns; positions count from 1 here and  *)
(* from 0 in the source.  A parse result is [ok, expr, pos]: ok is FALSE   *)
(* when parse_atom raised ValueError.                                      *)
(***************************************************************************)
\* What peek returns past the last token (Python's None): no token has this text.
NoToken == "<None>"

peek(tokens, pos) == IF pos <= Len(tokens) THEN tokens[pos] ELSE NoToken

Raised(pos) == [ok |-> FALSE, expr |-> Symbol(NoToken), pos |-> pos]

Parsed(expr, pos) == [ok |-> TRUE, expr |-> expr, pos |-> pos]

RECURSIVE parse_implies(_, _)
RECURSIVE parse_implies_loop(_, _)
RECURSIVE parse_or(_, _)
RECURSIVE parse_or_loop(_, _)
RECURSIVE parse_and(_, _)
RECURSIVE parse_and_loop(_, _)
RECURSIVE parse_not(_, _)
RECURSIVE parse_atom(_, _)

parse_atom(tokens, pos) ==
    IF peek(tokens, pos) = "("
    THEN LET inner == parse_implies(tokens, pos + 1)
         IN  IF ~inner.ok THEN inner
             ELSE IF peek(tokens, inner.pos) # ")" THEN Raised(inner.pos)
             ELSE Parsed(inner.expr, inner.pos + 1)
    ELSE Parsed(Symbol(peek(tokens, pos)), pos + 1)

parse_not(tokens, pos) ==
    IF peek(tokens, pos) = "not"
    THEN LET inner == parse_not(tokens, pos + 1)
         IN  IF ~inner.ok THEN inner ELSE Parsed(Not(inner.expr), inner.pos)
    ELSE parse_atom(tokens, pos)

\* The while loop of parse_and: `left` is the result parsed so far.
parse_and_loop(tokens, left) ==
    IF left.ok /\ peek(tokens, left.pos) = "and"
    THEN LET right == parse_not(tokens, left.pos + 1)
         IN  IF ~right.ok THEN right
             ELSE parse_and_loop(tokens, Parsed(And(left.expr, right.expr), right.pos))
    ELSE left

parse_and(tokens, pos) == parse_and_loop(tokens, parse_not(tokens, pos))

parse_or_loop(tokens, left) ==
    IF left.ok /\ peek(tokens, left.pos) = "or"
    THEN LET right == parse_and(tokens, left.pos + 1)
         IN  IF ~right.ok THEN right
             ELSE parse_or_loop(tokens, Parsed(Or(left.expr, right.expr), right.pos))
    ELSE left

parse_or(tokens, pos) == parse_or_loop(tokens, parse_and(tokens, pos))

\* The loop of parse_implies with the right operand parsed by parse_implies
\* itself: the chain folds to the right.
parse_implies_loop_right(tokens, left) ==
    IF left.ok /\ peek(tokens, left.pos) = "implies"
    THEN LET right == parse_implies(tokens, left.pos + 1)
         IN  IF ~right.ok THEN right
             ELSE Parsed(Implies(left.expr, right.expr), right.pos)
    ELSE left

parse_implies_loop(tokens, left) ==
    IF left.ok /\ peek(tokens, left.pos) = "implies"
    THEN LET right == parse_or(tokens, left.pos + 1)
         IN  IF ~right.ok THEN right
             ELSE parse_implies_loop(tokens, Parsed(Implies(left.expr, right.expr), right.pos))
    ELSE left

parse_implies(tokens, pos) == parse_implies_loop(tokens, parse_or(tokens, pos))

parse(tokens) == parse_implies(tokens, 1)

(***************************************************************************)
(* KnowledgeBase helpers (lines 232-294).  `self` is the record of the     *)
(* object's four fields.                                                   *)
(***************************************************************************)
Self(t, f, d, r) == [facts_true |-> t, facts_false |-> f, symbol_desc |-> d, rules |-> r]

self == Self(facts_true, facts_false, symbol_desc, rules)

RECURSIVE _expr_to_str(_, _)
_expr_to_str(s, expr) ==
    CASE expr.type = "Symbol"  ->
             IF expr.name \in DOMAIN s.symbol_desc
             THEN expr.name \o " = " \o s.symbol_desc[expr.name]
             ELSE expr.name
      [] expr.type = "Not"     -> "not " \o _expr_to_str(s, expr.expr)
      [] expr.type = "And"     ->
             "(" \o _expr_to_str(s, expr.left) \o " and " \o _expr_to_str(s, expr.right) \o ")"
      [] expr.type = "Or"      ->
             "(" \o _expr_to_str(s, expr.left) \o " or " \o _expr_to_str(s, expr.right) \o ")"
      [] expr.type = "Implies" ->
             "(" \o _expr_to_str(s, expr.left) \o " implies " \o _expr_to_str(s, expr.right) \o ")"

\* _add_fact with the And case recursing into the left conjunct only.
RECURSIVE _add_fact_left_only(_, _, _)
_add_fact_left_only(s, expr, truth) ==
    CASE expr.type = "Symbol" ->
             IF truth
             THEN [s EXCEPT !.facts_true = @ \cup {expr.name}]
             ELSE [s EXCEPT !.facts_false = @ \cup {expr.name}]
      [] expr.type = "Not" -> _add_fact_left_only(s, expr.expr, ~truth)
      [] expr.type = "And" ->
             IF truth THEN _add_fact_left_only(s, expr.left, TRUE) ELSE s
      [] OTHER -> s

RECURSIVE _add_fact(_, _, _)
_add_fact(s, expr, truth) ==
    CASE expr.type = "Symbol" ->
             IF truth
             THEN [s EXCEPT !.facts_true = @ \cup {expr.name}]
             ELSE [s EXCEPT !.facts_false = @ \cup {expr.name}]
      [] expr.type = "Not" -> _add_fact(s, expr.expr, ~truth)
      [] expr.type = "And" ->
             IF truth
             THEN _add_fact(_add_fact(s, expr.left, TRUE), expr.right, TRUE)
             ELSE s
      [] OTHER -> s

\* _contradicts with the And case looking at the left conjunct only.
RECURSIVE _contradicts_left_only(_, _, _)
_contradicts_left_only(s, expr, truth) ==
    CASE expr.type = "Symbol" ->
             \/ truth /\ expr.name \in s.facts_false
             \/ ~truth /\ expr.name \in s.facts_true
      [] expr.type = "Not" -> _contradicts_left_only(s, expr.expr, ~truth)
      [] expr.type = "And" -> _contradicts_left_only(s, expr.left, truth)
      [] OTHER -> FALSE

RECURSIVE _contradicts(_, _, _)
_contradicts(s, expr, truth) ==
    CASE expr.type = "Symbol" ->
             \/ truth /\ expr.name \in s.facts_false
             \/ ~truth /\ expr.name \in s.facts_true
      [] expr.type = "Not" -> _contradicts(s, expr.expr, ~truth)
      [] expr.type = "And" ->
             _contradicts(s, expr.left, truth) \/ _contradicts(s, expr.right, truth)
      [] OTHER -> FALSE

\* The value of Not from its operand's (line 276).
not_value(val) ==
    IF val = "None" THEN "None"
    ELSE IF val = "True" THEN "False" ELSE "True"

\* The value of And from its operands' (lines 279-281).
and_value(l, r) ==
    IF l = "False" \/ r = "False" THEN "False"
    ELSE IF l = "True" /\ r = "True" THEN "True"
    ELSE "None"

\* The value of Or from its operands' (lines 284-286).
or_value(l, r) ==
    IF l = "True" \/ r = "True" THEN "True"
    ELSE IF l = "False" /\ r = "False" THEN "False"
    ELSE "None"

\* Implies over two truth values only: an undetermined implication counts as true.
implies_value_two_valued(l, r) ==
    IF l = "True" /\ r = "False" THEN "False" ELSE "True"

\* The value of Implies from its operands' (lines 289-291).
implies_value(l, r) ==
    IF l = "True" /\ r = "False" THEN "False"
    ELSE IF l = "False" \/ r = "True" THEN "True"
    ELSE "None"

RECURSIVE _evaluate(_, _)
_evaluate(s, expr) ==
    CASE expr.type = "Symbol" ->
             IF expr.name \in s.facts_true THEN "True"
             ELSE IF expr.name \in s.facts_false THEN "False"
             ELSE "None"
      [] expr.type = "Not" -> not_value(_evaluate(s, expr.expr))
      [] expr.type = "And" ->
             and_value(_evaluate(s, expr.left), _evaluate(s, expr.right))
      [] expr.type = "Or" ->
             or_value(_evaluate(s, expr.left), _evaluate(s, expr.right))
      [] expr.type = "Implies" ->
             implies_value(_evaluate(s, expr.left), _evaluate(s, expr.right))

_equal(a, b) == Repr(a) = Repr(b)


(***************************************************************************)
(* Forward chaining (lines 151-163).                                       *)
(***************************************************************************)
\* The body of `for premise, conclusion in self.rules`, from rule i on.
\* st = [self, changed, reported]: the object, the flag `changed`, and the
\* conclusions printed as "Contradiction detected during inference".
RECURSIVE scan_rules(_, _)
scan_rules(st, i) ==
    IF i > Len(st.self.rules) THEN st
    ELSE LET premise    == st.self.rules[i][1]
             conclusion == st.self.rules[i][2]
         IN  IF /\ _evaluate(st.self, premise) = "True"
                /\ _evaluate(st.self, conclusion) # "True"
             THEN IF _contradicts(st.self, conclusion, TRUE)
                  THEN scan_rules([st EXCEPT
                                      !.self = _add_fact(st.self, conclusion, FALSE),
                                      !.reported = @ \cup {_expr_to_str(st.self, conclusion)}],
                                  i + 1)
                  ELSE scan_rules([st EXCEPT
                                      !.self = _add_fact(st.self, conclusion, TRUE),
                                      !.changed = TRUE],
                                  i + 1)
             ELSE scan_rules(st, i + 1)

\* `if changed` for `while changed`: one pass and no more.
forward_chain_single_pass(s, passes, reported) ==
    LET st == scan_rules([self |-> s, changed |-> FALSE, reported |-> reported], 1)
    IN  [self |-> st.self, passes |-> passes + 1, hung |-> FALSE, reported |-> st.reported]

\* The `while changed` loop after `passes` complete passes.  A pass is a
\* function of the object alone, so a pass that sets `changed` and leaves the
\* object as it found it is repeated for ever: the call never returns (hung).
RECURSIVE forward_chain_loop(_, _, _)
forward_chain_loop(s, passes, reported) ==
    LET st == scan_rules([self |-> s, changed |-> FALSE, reported |-> reported], 1)
    IN  IF ~st.changed
        THEN [self |-> st.self, passes |-> passes + 1, hung |-> FALSE, reported |-> st.reported]
        ELSE IF st.self = s
        THEN [self |-> st.self, passes |-> passes + 1, hung |-> TRUE, reported |-> st.reported]
        ELSE forward_chain_loop(st.self, passes + 1, st.reported)

forward_chain(s) == forward_chain_loop(s, 0, {})

\* forward_chain once more, keeping a record of every step that takes the
\* contradiction branch (lines 158-161): the conclusion, the text printed for
\* it, and what the conclusion evaluates to directly after line 160.
\* st = [self, changed, steps].
RECURSIVE conflict_scan(_, _)
conflict_scan(st, i) ==
    IF i > Len(st.self.rules) THEN st
    ELSE LET premise    == st.self.rules[i][1]
             conclusion == st.self.rules[i][2]
         IN  IF /\ _evaluate(st.self, premise) = "True"
                /\ _evaluate(st.self, conclusion) # "True"
             THEN IF _contradicts(st.self, conclusion, TRUE)
                  THEN LET after == _add_fact(st.self, conclusion, FALSE)
                       IN  conflict_scan([st EXCEPT
                                             !.self = after,
                                             !.steps = @ \cup
                                                 {[conclusion |-> conclusion,
                                                   text |-> _expr_to_str(st.self, conclusion),
                                                   value |-> _evaluate(after, conclusion)]}],
                                         i + 1)
                  ELSE conflict_scan([st EXCEPT
                                         !.self = _add_fact(st.self, conclusion, TRUE),
                                         !.changed = TRUE],
                                     i + 1)
             ELSE conflict_scan(st, i + 1)

\* The passes of the while loop, up to the last pass or, when the loop never
\* ends, up to the pass that repeats.
RECURSIVE conflict_loop(_, _)
conflict_loop(s, steps) ==
    LET st == conflict_scan([self |-> s, changed |-> FALSE, steps |-> steps], 1)
    IN  IF ~st.changed \/ st.self = s THEN st.steps
        ELSE conflict_loop(st.self, st.steps)

conflict_steps(s) == conflict_loop(s, {})

(***************************************************************************)
(* Commands and what they print.                                           *)
(***************************************************************************)
\* A statement as the shell hands it over.  eq: the text holds "=", and
\* symbol / desc are the stripped halves of split("=", 1); otherwise tokens
\* are the tokens of the text (no token holds "=").
Definition(symbol, desc) == [eq |-> TRUE, symbol |-> symbol, desc |-> desc, tokens |-> <<>>]

Statement(tokens) == [eq |-> FALSE, symbol |-> "", desc |-> "", tokens |-> tokens]

\* What a call printed: the status line, the expression text in it, whether and
\* for how many passes forward_chain ran, the contradictions it printed, and for
\* ask whether _backward_chain ran and the proof it returned.
Output(status, text) ==
    [status |-> status, text |-> text, ran_fc |-> FALSE, passes |-> 0,
     inference |-> {}, ran_bc |-> FALSE, proof |-> <<>>]

\* The call's effect: the object, the output, and where control is:
\* "ready" (returned), "hung" (never returns), "raised" (left by an exception).
Effect(s, o, where) == [self |-> s, out |-> o, pc |-> where]

WithChaining(o, fc) ==
    Effect(fc.self,
           [o EXCEPT !.ran_fc = TRUE, !.passes = fc.passes, !.inference = fc.reported],
           IF fc.hung THEN "hung" ELSE "ready")

(***************************************************************************)
(* tell (lines 99-123).                                                    *)
(***************************************************************************)
\* Lines 105-106: the symbol made true and its description stored.
add_definition(s, symbol, desc) ==
    [s EXCEPT !.facts_true = @ \cup {symbol},
              !.symbol_desc = [n \in DOMAIN @ \cup {symbol} |->
                                  IF n = symbol THEN desc ELSE @[n]]]

\* The rule put in front of the stored rules.
add_rule_in_front(s, expr) == [s EXCEPT !.rules = <<<<expr.left, expr.right>>>> \o @]

\* Line 114: the rule appended.
add_rule(s, expr) == [s EXCEPT !.rules = Append(@, <<expr.left, expr.right>>)]

tell_definition(s, symbol, desc) ==
    IF symbol \in s.facts_false
    THEN Effect(s, Output("Contradiction detected", symbol), "ready")
    ELSE WithChaining(Output("Added fact", symbol \o " = " \o desc),
                      forward_chain(add_definition(s, symbol, desc)))

\* tell's rule branch without the forward_chain call of line 116.
tell_rule_no_chaining(s, expr) ==
    Effect(add_rule(s, expr), Output("Added rule", Repr(expr)), "ready")

tell_rule(s, expr) ==
    WithChaining(Output("Added rule", Repr(expr)), forward_chain(add_rule(s, expr)))

\* tell's fact branch checking and adding one conjunct at a time: the left
\* conjunct is added before the right one is found contradictory.
tell_fact_partial(s, expr) ==
    IF _contradicts(s, expr, TRUE)
    THEN Effect(IF expr.type = "And" /\ ~_contradicts(s, expr.left, TRUE)
                THEN _add_fact(s, expr.left, TRUE)
                ELSE s,
                Output("Contradiction detected", Repr(expr)), "ready")
    ELSE LET added == _add_fact(s, expr, TRUE)
         IN  WithChaining(Output("Added fact", _expr_to_str(added, expr)),
                          forward_chain(added))

tell_fact(s, expr) ==
    IF _contradicts(s, expr, TRUE)
    THEN Effect(s, Output("Contradiction detected", Repr(expr)), "ready")
    ELSE LET added == _add_fact(s, expr, TRUE)
         IN  WithChaining(Output("Added fact", _expr_to_str(added, expr)),
                          forward_chain(added))

tell(s, statement) ==
    IF statement.eq
    THEN tell_definition(s, statement.symbol, statement.desc)
    ELSE LET parsed == parse(statement.tokens)
         IN  IF ~parsed.ok THEN Effect(s, Output("ValueError", ""), "raised")
             ELSE IF parsed.expr.type = "Implies" THEN tell_rule(s, parsed.expr)
             ELSE tell_fact(s, parsed.expr)

(***************************************************************************)
(* clear (lines 89-94).                                                    *)
(***************************************************************************)
\* The empty dict of symbol_desc.
NoDesc == [n \in {} |-> ""]

clear(s) == Effect(Self({}, {}, NoDesc, <<>>), Output("Knowledge base cleared.", ""), "ready")


(***************************************************************************)
(* Backward chaining (lines 168-224).  A result is [val, proof, visited,   *)
(* error]: the pair the call returns, the set `visited` as the call left   *)
(* it (one set object is shared by the whole search), and whether the      *)
(* recursion went deeper than the interpreter allows.  A proof is a        *)
(* sequence of <<expr, reason>>.                                           *)
(***************************************************************************)
Result(val, proof, visited) ==
    [val |-> val, proof |-> proof, visited |-> visited, error |-> FALSE]

RecursionError(visited) ==
    [val |-> "None", proof |-> <<>>, visited |-> visited, error |-> TRUE]

\* What And / Or / Implies return from the results l, r of their operands.
Combine(expr, val, reason, l, r) ==
    Result(val, <<<<expr, reason>>>> \o l.proof \o r.proof, r.visited)

\* The cycle guard left out.
in_visited_never(expr, visited) == FALSE

\* Line 169: the cycle guard.
in_visited(expr, visited) == Repr(expr) \in visited

RECURSIVE _backward_chain(_, _, _, _)
RECURSIVE _backward_chain_rules(_, _, _, _, _)

\* The rule search answering with the first rule whose conclusion is the
\* symbol, whatever its antecedent comes out as: later rules are not tried.
RECURSIVE _backward_chain_rules_first_only(_, _, _, _, _)
_backward_chain_rules_first_only(s, expr, i, visited, depth) ==
    IF i > Len(s.rules)
    THEN Result("None", <<<<expr, "Unknown">>>>, visited)
    ELSE LET premise    == s.rules[i][1]
             conclusion == s.rules[i][2]
         IN  IF _equal(conclusion, expr)
             THEN LET sub == _backward_chain(s, premise, visited, depth + 1)
                  IN  IF sub.error THEN sub
                      ELSE IF sub.val = "True"
                      THEN Result("True",
                                  <<<<expr, "Inferred from " \o _expr_to_str(s, premise)
                                            \o " implies " \o _expr_to_str(s, conclusion)>>>>
                                      \o sub.proof,
                                  sub.visited)
                      ELSE IF sub.val = "False"
                      THEN Result("False",
                                  <<<<expr, "Cannot hold because " \o _expr_to_str(s, premise)
                                            \o " is false">>>> \o sub.proof,
                                  sub.visited)
                      ELSE Result("None", <<<<expr, "Unknown">>>>, sub.visited)
             ELSE _backward_chain_rules_first_only(s, expr, i + 1, visited, depth)

\* `for premise, conclusion in self.rules` of the Symbol case, from rule i on.
_backward_chain_rules(s, expr, i, visited, depth) ==
    IF i > Len(s.rules)
    THEN Result("None", <<<<expr, "Unknown">>>>, visited)
    ELSE LET premise    == s.rules[i][1]
             conclusion == s.rules[i][2]
         IN  IF _equal(conclusion, expr)
             THEN LET sub == _backward_chain(s, premise, visited, depth + 1)
                  IN  IF sub.error THEN sub
                      ELSE IF sub.val = "True"
                      THEN Result("True",
                                  <<<<expr, "Inferred from " \o _expr_to_str(s, premise)
                                            \o " implies " \o _expr_to_str(s, conclusion)>>>>
                                      \o sub.proof,
                                  sub.visited)
                      ELSE IF sub.val = "False"
                      THEN Result("False",
                                  <<<<expr, "Cannot hold because " \o _expr_to_str(s, premise)
                                            \o " is false">>>> \o sub.proof,
                                  sub.visited)
                      ELSE _backward_chain_rules(s, expr, i + 1, sub.visited, depth)
             ELSE _backward_chain_rules(s, expr, i + 1, visited, depth)

_backward_chain(s, expr, visited, depth) ==
    IF depth > MaxRecursion THEN RecursionError(visited)
    ELSE IF in_visited(expr, visited) THEN Result("None", <<>>, visited)
    ELSE
    LET seen == visited \cup {Repr(expr)}
    IN  CASE expr.type = "Symbol" ->
                 IF expr.name \in s.facts_true
                 THEN Result("True", <<<<expr, "Given as fact">>>>, seen)
                 ELSE IF expr.name \in s.facts_false
                 THEN Result("False", <<<<expr, "Contradiction: Known to be false">>>>, seen)
                 ELSE _backward_chain_rules(s, expr, 1, seen, depth)
          [] expr.type = "Not" ->
                 LET sub == _backward_chain(s, expr.expr, seen, depth + 1)
                     txt == _expr_to_str(s, expr.expr)
                 IN  IF sub.error THEN sub
                     ELSE IF sub.val = "True"
                     THEN Result("False",
                                 <<<<expr, "Negation fails because " \o txt \o " is true">>>>
                                     \o sub.proof, sub.visited)
                     ELSE IF sub.val = "False"
                     THEN Result("True",
                                 <<<<expr, "Negation succeeds because " \o txt \o " is false">>>>
                                     \o sub.proof, sub.visited)
                     ELSE Result("None",
                                 <<<<expr, "Unknown because " \o txt \o " is unknown">>>>
                                     \o sub.proof, sub.visited)
          [] OTHER ->
                 LET l == _backward_chain(s, expr.left, seen, depth + 1)
                     r == IF l.error THEN l
                          ELSE _backward_chain(s, expr.right, l.visited, depth + 1)
                 IN  IF r.error THEN r
                     ELSE CASE expr.type = "And" ->
                                   IF l.val = "False" \/ r.val = "False"
                                   THEN Combine(expr, "False", "One conjunct false", l, r)
                                   ELSE IF l.val = "True" /\ r.val = "True"
                                   THEN Combine(expr, "True", "Both conjuncts true", l, r)
                                   ELSE Combine(expr, "None", "One conjunct unknown", l, r)
                            [] expr.type = "Or" ->
                                   IF l.val = "True" \/ r.val = "True"
                                   THEN Combine(expr, "True", "One disjunct true", l, r)
                                   ELSE IF l.val = "False" /\ r.val = "False"
                                   THEN Combine(expr, "False", "Both disjuncts false", l, r)
                                   ELSE Combine(expr, "None", "One disjunct unknown", l, r)
                            [] expr.type = "Implies" ->
                                   IF l.val = "True" /\ r.val = "False"
                                   THEN Combine(expr, "False",
                                                "Contradiction: antecedent true and consequent false",
                                                l, r)
                                   ELSE IF l.val = "False" \/ r.val = "True"
                                   THEN Combine(expr, "True", "Implication satisfied", l, r)
                                   ELSE Combine(expr, "None", "Implication unknown", l, r)

(***************************************************************************)
(* ask (lines 128-146).                                                    *)
(***************************************************************************)
\* The status line chosen by truthiness alone: None counts as False.
verdict_by_truthiness(val) ==
    IF val = "True" THEN "True (proved)" ELSE "False (proved)"

\* Lines 142-145: the status line for what _backward_chain returned.
verdict(val) ==
    IF val = "None" THEN "Unknown"
    ELSE IF val = "True" THEN "True (proved)" ELSE "False (proved)"

\* ask keeping what the search proved: the proved value is stored as a fact.
ask_storing_proved(s, statement) ==
    LET parsed == parse(statement.tokens)
        expr   == parsed.expr
        val    == _evaluate(s, expr)
        text   == _expr_to_str(s, expr)
        bc     == _backward_chain(s, expr, {}, 1)
    IN  IF ~parsed.ok THEN Effect(s, Output("ValueError", ""), "raised")
        ELSE IF val = "True" THEN Effect(s, Output("True", text), "ready")
        ELSE IF val = "False" THEN Effect(s, Output("False", text), "ready")
        ELSE IF bc.error
        THEN Effect(s, [Output("RecursionError", "") EXCEPT !.ran_bc = TRUE], "raised")
        ELSE Effect(IF bc.val = "None" THEN s ELSE _add_fact(s, expr, bc.val = "True"),
                    [Output(verdict(bc.val), text) EXCEPT
                        !.ran_bc = TRUE,
                        !.proof = IF bc.val = "None" THEN <<>> ELSE bc.proof],
                    "ready")

ask(s, statement) ==
    LET parsed == parse(statement.tokens)
        expr   == parsed.expr
        val    == _evaluate(s, expr)
        text   == _expr_to_str(s, expr)
        bc     == _backward_chain(s, expr, {}, 1)
    IN  IF ~parsed.ok THEN Effect(s, Output("ValueError", ""), "raised")
        ELSE IF val = "True" THEN Effect(s, Output("True", text), "ready")
        ELSE IF val = "False" THEN Effect(s, Output("False", text), "ready")
        ELSE IF bc.error
        THEN Effect(s, [Output("RecursionError", "") EXCEPT !.ran_bc = TRUE], "raised")
        ELSE Effect(s,
                    [Output(verdict(bc.val), text) EXCEPT
                        !.ran_bc = TRUE,
                        !.proof = IF bc.val = "None" THEN <<>> ELSE bc.proof],
                    "ready")


(***************************************************************************)
(* The commands the shell is given (lines 299-307).                        *)
(***************************************************************************)
\* Statements told: rules with a symbol, a negation, a disjunction, a negated
\* conjunction, an implication and a conjunction as consequent, facts of every
\* shape _add_fact and _contradicts tell apart, and a definition.
TellRules ==
    { <<"a", "implies", "b">>,
      <<"b", "implies", "a">>,
      <<"a", "implies", "not", "b">>,
      <<"a", "implies", "b", "or", "c">>,
      <<"b", "implies", "c">>,
      <<"a", "implies", "c">>,
      <<"a", "implies", "not", "(", "a", "and", "b", ")">>,
      <<"a", "implies", "(", "b", "implies", "c", ")">>,
      <<"a", "implies", "c", "and", "not", "(", "a", "and", "b", ")">> }

TellFacts ==
    { <<"a">>,
      <<"b">>,
      <<"not", "a">>,
      <<"not", "b">>,
      <<"a", "and", "b">>,
      <<"b", "and", "not", "a">>,
      <<"a", "and", "not", "a">>,
      <<"not", "(", "a", "or", "b", ")">>,
      <<"not", "(", "a", "and", "b", ")">> }

TellStatements ==
    {Statement(t) : t \in TellRules \cup TellFacts} \cup {Definition("a", "rain")}

AskStatements ==
    {Statement(t) : t \in
        { <<"a">>, <<"b">>, <<"c">>, <<"not", "a">>, <<"a", "and", "b">>,
          <<"b", "or", "b">>, <<"a", "implies", "b">> }}

NoStatement == Statement(<<>>)

Command(op, statement) == [op |-> op, statement |-> statement]

\* The state after KnowledgeBase(): __init__ calls clear.
Init ==
    /\ facts_true = {}
    /\ facts_false = {}
    /\ symbol_desc = NoDesc
    /\ rules = <<>>
    /\ pc = "ready"
    /\ cmd = Command("clear", NoStatement)
    /\ out = Output("Knowledge base cleared.", "")

Apply(effect) ==
    /\ facts_true' = effect.self.facts_true
    /\ facts_false' = effect.self.facts_false
    /\ symbol_desc' = effect.self.symbol_desc
    /\ rules' = effect.self.rules
    /\ pc' = effect.pc
    /\ out' = effect.out

\* Whether telling the statement appends a rule.
IsRule(statement) ==
    /\ ~statement.eq
    /\ parse(statement.tokens).ok
    /\ parse(statement.tokens).expr.type = "Implies"

Tell ==
    /\ pc = "ready"
    /\ \E statement \in TellStatements :
          /\ IsRule(statement) => Len(rules) < MaxRules
          /\ cmd' = Command("tell", statement)
          /\ Apply(tell(self, statement))

Ask ==
    /\ pc = "ready"
    /\ \E statement \in AskStatements :
          /\ cmd' = Command("ask", statement)
          /\ Apply(ask(self, statement))

Clear ==
    /\ pc = "ready"
    /\ cmd' = Command("clear", NoStatement)
    /\ Apply(clear(self))

Next == Tell \/ Ask \/ Clear

Spec == Init /\ [][Next]_vars

(***************************************************************************)
(* The parser on its own (lines 31-39): Parser(text).parse() for every     *)
(* token sequence up to MaxTokens over a vocabulary of three names, the    *)
(* four reserved words and the two parentheses.  cmd holds the input, out  *)
(* what parse returned, pc whether it returned or raised.                  *)
(***************************************************************************)
Vocabulary == {"a", "b", "c", "not", "and", "or", "implies", "(", ")"}

TokenSequences == UNION {[1..n -> Vocabulary] : n \in 0..MaxTokens}

ParserInit ==
    /\ facts_true = {}
    /\ facts_false = {}
    /\ symbol_desc = NoDesc
    /\ rules = <<>>
    /\ pc = "ready"
    /\ \E tokens \in TokenSequences : cmd = Command("parse", Statement(tokens))
    /\ out = Output("", "")

Parse ==
    /\ pc = "ready"
    /\ cmd.op = "parse"
    /\ LET parsed == parse(cmd.statement.tokens)
       IN  /\ out' = parsed
           /\ pc' = IF parsed.ok THEN "returned" ELSE "raised"
    /\ UNCHANGED <<facts_true, facts_false, symbol_desc, rules, cmd>>

ParserNext == Parse

ParserSpec == ParserInit /\ [][ParserNext]_vars


(***************************************************************************)
(* Properties.                                                             *)
(***************************************************************************)
\* The symbol names of the statements above.
Names == {"a", "b", "c"}

RECURSIVE names_of(_)
names_of(expr) ==
    CASE expr.type = "Symbol" -> {expr.name}
      [] expr.type = "Not"    -> names_of(expr.expr)
      [] OTHER                -> names_of(expr.left) \cup names_of(expr.right)

\* The distinct symbols of the knowledge store: those of its facts and rules.
DistinctSymbols ==
    facts_true \cup facts_false
        \cup UNION {names_of(rules[i][1]) \cup names_of(rules[i][2]) : i \in 1..Len(rules)}

\* The atomic facts a statement asserts when it is asserted with `truth`: a
\* symbol itself, a negation its operand with truth flipped, a true conjunction
\* both conjuncts; no other shape asserts an atomic fact.
RECURSIVE asserted(_, _)
asserted(expr, truth) ==
    CASE expr.type = "Symbol" -> {<<expr.name, truth>>}
      [] expr.type = "Not"    -> asserted(expr.expr, ~truth)
      [] expr.type = "And"    ->
             IF truth THEN asserted(expr.left, TRUE) \cup asserted(expr.right, TRUE) ELSE {}
      [] OTHER                -> {}

Told(tokens) == cmd.op = "tell" /\ cmd.statement = Statement(tokens)

Asked(tokens) == cmd.op = "ask" /\ cmd.statement = Statement(tokens)

Rule(premise, conclusion) == <<Symbol(premise), Symbol(conclusion)>>

\* C1: after any sequence of tell and clear, no symbol name is in both the
\* true set and the false set.
C1_TrueFalseDisjoint == facts_true \cap facts_false = {}

\* C2: forward_chain terminates: it never runs for ever, and the number of its
\* passes is bounded by the number of distinct symbols (every pass but the
\* last adds a fact).
C2_ForwardChainTerminates ==
    /\ pc # "hung"
    /\ out.ran_fc => out.passes <= Cardinality(DistinctSymbols) + 1

\* C3: once a symbol x is true (and not false), every tell leaves it true and
\* not false, and a tell of a statement that asserts x false (not x, or a
\* conjunction containing not x) reports a contradiction.
C3_ContradictionRejected ==
    [][\A x \in Names :
          (x \in facts_true /\ x \notin facts_false /\ cmd'.op = "tell")
          => /\ x \in facts_true'
             /\ x \notin facts_false'
             /\ ( /\ ~cmd'.statement.eq
                  /\ <<x, FALSE>> \in asserted(parse(cmd'.statement.tokens).expr, TRUE) )
                => out'.status = "Contradiction detected"]_vars

\* a was told true, then not a was told and rejected.
C3_Witness ==
    /\ Told(<<"not", "a">>)
    /\ out.status = "Contradiction detected"
    /\ "a" \in facts_true
    /\ "a" \notin facts_false

\* C4: a tell that reports a contradiction (for a definition or for a direct
\* assertion) leaves the true set, the false set, the description map and the
\* rule list as they were, and does not run forward chaining.
C4_RejectedTellAtomic ==
    [][(cmd'.op = "tell" /\ out'.status = "Contradiction detected")
       => /\ UNCHANGED <<facts_true, facts_false, symbol_desc, rules>>
          /\ ~out'.ran_fc]_vars

\* The conjunction b and not a was rejected for its second conjunct, and its
\* first conjunct b was not applied.
C4_Witness ==
    /\ Told(<<"b", "and", "not", "a">>)
    /\ out.status = "Contradiction detected"
    /\ "a" \in facts_true
    /\ "b" \notin facts_true

\* C5: in every state in which forward_chain has just returned, running
\* forward_chain again changes neither the true set nor the false set.
C5_ForwardChainIdempotent ==
    (pc = "ready" /\ out.ran_fc)
    => LET again == forward_chain(self)
       IN  /\ again.self.facts_true = facts_true
           /\ again.self.facts_false = facts_false


\* C6: ask never exceeds the recursion the interpreter allows, whatever the
\* rule list; with exactly the rules x implies y and y implies x and neither
\* x nor y asserted, ask x reports Unknown.
C6_CycleSafe ==
    cmd.op = "ask"
    => /\ out.status # "RecursionError"
       /\ pc = "ready"
       /\ \A x, y \in Names :
             ( /\ x # y
               /\ Asked(<<x>>)
               /\ rules = <<Rule(x, y), Rule(y, x)>>
               /\ {x, y} \cap (facts_true \cup facts_false) = {} )
             => out.status = "Unknown"

\* a was asked with the rules a implies b and b implies a and no facts.
C6_Witness ==
    /\ Asked(<<"a">>)
    /\ rules = <<Rule("a", "b"), Rule("b", "a")>>
    /\ facts_true = {}
    /\ facts_false = {}
    /\ out.ran_bc
    /\ out.status = "Unknown"

\* From an empty store: tell "a implies b", tell "not b", then ask "a".
C7_Scenario ==
    /\ Asked(<<"a">>)
    /\ rules = <<Rule("a", "b")>>
    /\ facts_true = {}
    /\ facts_false = {"b"}
    /\ symbol_desc = NoDesc

\* C7 as stated: in that scenario ask "a" reports False (proved) with a proof.
C7_RefutesAntecedent ==
    C7_Scenario => (out.status = "False (proved)" /\ out.proof # <<>>)

\* C7 as amended: in that scenario ask "a" runs backward chaining, which finds
\* no rule concluding a, and reports Unknown with no proof.
C7_AntecedentUnknown ==
    C7_Scenario => (out.status = "Unknown" /\ out.ran_bc /\ out.proof = <<>>)

C7_Witness == C7_Scenario /\ out.status = "Unknown"

\* The last command told symbol p true, or told the rule p implies q.
ToldTrueOrRule(p, q) ==
    /\ cmd.op = "tell"
    /\ \/ cmd.statement.eq /\ cmd.statement.symbol = p
       \/ /\ ~cmd.statement.eq
          /\ LET expr == parse(cmd.statement.tokens).expr
             IN  \/ <<p, TRUE>> \in asserted(expr, TRUE)
                 \/ expr = Implies(Symbol(p), Symbol(q))

Level(val) == CASE val = "False" -> 0 [] val = "None" -> 1 [] val = "True" -> 2

Least(m, n) == IF m <= n THEN m ELSE n

Greatest(m, n) == IF m >= n THEN m ELSE n

RECURSIVE Kleene(_)
Kleene(expr) ==
    CASE expr.type = "Symbol"  ->
             IF expr.name \in facts_true THEN 2
             ELSE IF expr.name \in facts_false THEN 0 ELSE 1
      [] expr.type = "Not"     -> 2 - Kleene(expr.expr)
      [] expr.type = "And"     -> Least(Kleene(expr.left), Kleene(expr.right))
      [] expr.type = "Or"      -> Greatest(Kleene(expr.left), Kleene(expr.right))
      [] expr.type = "Implies" -> Greatest(2 - Kleene(expr.left), Kleene(expr.right))

\* Every expression with at most one operator over Names, and every statement.
EvalExprs ==
    LET atoms == {Symbol(n) : n \in Names}
    IN  atoms \cup {Not(e) : e \in atoms}
              \cup {And(l, r) : l, r \in atoms}
              \cup {Or(l, r) : l, r \in atoms}
              \cup {Implies(l, r) : l, r \in atoms}
              \cup {parse(t).expr : t \in TellRules \cup TellFacts}
              \cup {parse(st.tokens).expr : st \in AskStatements}

\* C9: for every expression and every store state _evaluate returns one of
\* True, False, None, and it is the strong Kleene value.
C9_EvaluateIsKleene ==
    \A expr \in EvalExprs :
        /\ _evaluate(self, expr) \in {"True", "False", "None"}
        /\ Level(_evaluate(self, expr)) = Kleene(expr)

\* a implies b was asked with a true and b false, and evaluated to False.
C9_Witness ==
    /\ Asked(<<"a", "implies", "b">>)
    /\ "a" \in facts_true
    /\ "b" \in facts_false
    /\ "b" \notin facts_true
    /\ out.status = "False"

\* The object tell hands to forward_chain for an accepted statement.
BeforeChaining(s, statement) ==
    IF statement.eq THEN add_definition(s, statement.symbol, statement.desc)
    ELSE LET expr == parse(statement.tokens).expr
         IN  IF expr.type = "Implies" THEN add_rule(s, expr) ELSE _add_fact(s, expr, TRUE)

\* Every ordering of a rule list.
Orderings(rs) ==
    {[i \in 1..Len(rs) |-> rs[f[i]]] : f \in Permutations(1..Len(rs))}

\* C10 as stated: whenever forward_chain returns inside a tell, it would have
\* returned the same true set and false set from the same facts for every
\* ordering of the rule list that returns.
C10_OrderIndependent ==
    [][(cmd'.op = "tell" /\ out'.ran_fc /\ pc' = "ready")
       => \A rs \in Orderings(rules') :
             LET other == forward_chain([BeforeChaining(self, cmd'.statement)
                                            EXCEPT !.rules = rs])
             IN  ~other.hung
                 => /\ other.self.facts_true = facts_true'
                    /\ other.self.facts_false = facts_false']_vars

\* C10 as amended: when every rule's consequent is a bare symbol,
\* forward_chain returns for every ordering of the rule list, with the same
\* true set and false set.
C10_OrderIndependentSymbols ==
    [][(cmd'.op = "tell" /\ out'.ran_fc
        /\ \A i \in 1..Len(rules') : rules'[i][2].type = "Symbol")
       => /\ pc' = "ready"
          /\ \A rs \in Orderings(rules') :
                LET other == forward_chain([BeforeChaining(self, cmd'.statement)
                                               EXCEPT !.rules = rs])
                IN  /\ ~other.hung
                    /\ other.self.facts_true = facts_true'
                    /\ other.self.facts_false = facts_false']_vars

\* a was told with the rules b implies c and a implies b stored: the chain
\* took a pass more than in the other order.
C10_Witness ==
    /\ Told(<<"a">>)
    /\ rules = <<Rule("b", "c"), Rule("a", "b")>>
    /\ facts_true = {"a", "b", "c"}
    /\ out.passes = 3

\* A symbol or a negated symbol.
IsLiteral(expr) ==
    \/ expr.type = "Symbol"
    \/ expr.type = "Not" /\ expr.expr.type = "Symbol"

\* A conjunction whose conjuncts are literals.
RECURSIVE IsLiteralConjunction(_)
IsLiteralConjunction(expr) ==
    /\ expr.type = "And"
    /\ IsLiteral(expr.left) \/ IsLiteralConjunction(expr.left)
    /\ IsLiteral(expr.right) \/ IsLiteralConjunction(expr.right)

\* The command is an accepted tell of a conjunction of literals.
AcceptedConjunction(command, output) ==
    /\ command.op = "tell"
    /\ ~command.statement.eq
    /\ IsLiteralConjunction(parse(command.statement.tokens).expr)
    /\ output.status = "Added fact"

\* C11: a tell of a conjunction of literals that is not rejected leaves every
\* positive symbol of it in the true set and every negated symbol in the false
\* set, and an ask of one of its positive symbols that follows is answered
\* "True" by direct evaluation, without backward chaining.
C11_ConjunctionDecomposes ==
    [][/\ AcceptedConjunction(cmd', out')
          => \A lit \in asserted(parse(cmd'.statement.tokens).expr, TRUE) :
                IF lit[2] THEN lit[1] \in facts_true' ELSE lit[1] \in facts_false'
       /\ \A p \in Names :
             ( /\ AcceptedConjunction(cmd, out)
               /\ <<p, TRUE>> \in asserted(parse(cmd.statement.tokens).expr, TRUE)
               /\ cmd' = Command("ask", Statement(<<p>>)) )
             => /\ out'.status = "True"
                /\ ~out'.ran_bc
                /\ out'.proof = <<>>
                /\ pc' = "ready"]_vars

\* b and not a was told to a store that knew neither: b is true, a is false.
C11_Witness ==
    /\ Told(<<"b", "and", "not", "a">>)
    /\ out.status = "Added fact"
    /\ "b" \in facts_true
    /\ "a" \in facts_false
    /\ "a" \notin facts_true

\* C12: ask is read-only: an ask of any statement in any store state, answered
\* by direct evaluation or by the backward-chaining search, leaves the true
\* set, the false set, the description map and the rule list unchanged.
C12_AskReadOnly ==
    [][cmd'.op = "ask"
       => UNCHANGED <<facts_true, facts_false, symbol_desc, rules>>]_vars

\* c was asked with a rule concluding c: the search refuted c from the rule's
\* false antecedent, and c is still in neither set.
C12_Witness ==
    /\ Asked(<<"c">>)
    /\ out.ran_bc
    /\ out.status = "False (proved)"
    /\ "c" \notin facts_true \cup facts_false
    /\ rules # <<>>

\* The grammar of statements, read off a token sequence without a parser: the
\* root of the tree is the last operator of the lowest precedence outside all
\* parentheses (implies, then or, then and); without such an operator the
\* sequence is a negation, a parenthesised statement or a single name.
ReservedWords == {"not", "and", "or", "implies"}

\* Opening minus closing parentheses before position i.
Depth(tokens, i) ==
    Cardinality({j \in 1..(i - 1) : tokens[j] = "("})
        - Cardinality({j \in 1..(i - 1) : tokens[j] = ")"})

\* The positions of `word` outside all parentheses.
TopLevel(tokens, word) ==
    {i \in 1..Len(tokens) : tokens[i] = word /\ Depth(tokens, i) = 0}

RootOperator(tokens) ==
    IF TopLevel(tokens, "implies") # {} THEN "implies"
    ELSE IF TopLevel(tokens, "or") # {} THEN "or"
    ELSE IF TopLevel(tokens, "and") # {} THEN "and"
    ELSE ""

\* Where the root operator stands: its last occurrence, as each level is
\* left-associative.
RootPosition(tokens) ==
    LET at == TopLevel(tokens, RootOperator(tokens))
    IN  CHOOSE i \in at : \A j \in at : j <= i

LeftOperand(tokens) == SubSeq(tokens, 1, RootPosition(tokens) - 1)

RightOperand(tokens) == SubSeq(tokens, RootPosition(tokens) + 1, Len(tokens))

Inner(tokens) == SubSeq(tokens, 2, Len(tokens) - 1)

RECURSIVE WellFormed(_)
WellFormed(tokens) ==
    /\ tokens # <<>>
    /\ IF RootOperator(tokens) # ""
       THEN WellFormed(LeftOperand(tokens)) /\ WellFormed(RightOperand(tokens))
       ELSE IF tokens[1] = "not" THEN WellFormed(Tail(tokens))
       ELSE IF Len(tokens) = 1 THEN tokens[1] \notin ReservedWords \cup {"(", ")"}
       ELSE tokens[1] = "(" /\ tokens[Len(tokens)] = ")" /\ WellFormed(Inner(tokens))

\* The tree of a well-formed token sequence.
RECURSIVE GrammarTree(_)
GrammarTree(tokens) ==
    CASE RootOperator(tokens) = "implies" ->
             Implies(GrammarTree(LeftOperand(tokens)), GrammarTree(RightOperand(tokens)))
      [] RootOperator(tokens) = "or" ->
             Or(GrammarTree(LeftOperand(tokens)), GrammarTree(RightOperand(tokens)))
      [] RootOperator(tokens) = "and" ->
             And(GrammarTree(LeftOperand(tokens)), GrammarTree(RightOperand(tokens)))
      [] OTHER ->
             IF tokens[1] = "not" THEN Not(GrammarTree(Tail(tokens)))
             ELSE IF Len(tokens) = 1 THEN Symbol(tokens[1])
             ELSE GrammarTree(Inner(tokens))

\* parse was called on the tokens and the call is over.
ParseDone == cmd.op = "parse" /\ pc \in {"returned", "raised"}

\* C13: for every well-formed token sequence parse returns the tree of the
\* grammar, with not binding tighter than and, and tighter than or, or tighter
\* than implies, and every binary level folding to the left; all tokens are
\* consumed.
C13_ParserPrecedence ==
    (ParseDone /\ WellFormed(cmd.statement.tokens))
    => /\ pc = "returned"
       /\ out.ok
       /\ out.expr = GrammarTree(cmd.statement.tokens)
       /\ out.pos = Len(cmd.statement.tokens) + 1

\* a implies b implies c was parsed to (a implies b) implies c.
C13_Witness ==
    /\ ParseDone
    /\ cmd.statement.tokens = <<"a", "implies", "b", "implies", "c">>
    /\ out.expr = Implies(Implies(Symbol("a"), Symbol("b")), Symbol("c"))

\* C14: parse of a token sequence that is not well-formed (mismatched
\* parentheses, a missing operand, empty input, a parenthesis or a reserved
\* word where a name is expected, tokens left over after a complete
\* statement) raises an error and returns no expression.
C14_MalformedRejected ==
    (ParseDone /\ ~WellFormed(cmd.statement.tokens)) => (pc = "raised" /\ ~out.ok)

\* C15: the cycle guard holds an expression only while its own proof is in
\* progress: when ask runs the search on a statement whose two operands are
\* the same expression, the right operand, met after the proof of the left one
\* is complete, is proved again with the left one's value and trace.
C15_GuardOnActivePath ==
    (cmd.op = "ask" /\ out.ran_bc /\ pc = "ready")
    => LET expr == parse(cmd.statement.tokens).expr
       IN  (expr.type \in {"And", "Or", "Implies"} /\ _equal(expr.left, expr.right))
           => LET l == _backward_chain(self, expr.left, {Repr(expr)}, 2)
                  r == _backward_chain(self, expr.right, l.visited, 2)
              IN  /\ r.val = l.val
                  /\ r.proof = l.proof

\* The rules whose conclusion is the symbol x, by position.
Concluding(x) == {i \in 1..Len(rules) : _equal(rules[i][2], Symbol(x))}

\* The set visited as the search for x finds it when it comes to rule i.
RECURSIVE VisitedAt(_, _)
VisitedAt(x, i) ==
    IF i = 1 THEN {x}
    ELSE LET before == VisitedAt(x, i - 1)
         IN  IF i - 1 \in Concluding(x)
             THEN _backward_chain(self, rules[i - 1][1], before, 2).visited
             ELSE before

\* What proving the antecedent of rule i gives in the search for x.
Antecedent(x, i) == _backward_chain(self, rules[i][1], VisitedAt(x, i), 2)

\* The last command asked the symbol x, x is neither true nor false, and the
\* search returned.
AskedUnknownSymbol(x) ==
    /\ Asked(<<x>>)
    /\ x \notin facts_true \cup facts_false
    /\ out.ran_bc
    /\ pc = "ready"

\* C16 as stated: the answer for a symbol that is neither true nor false and
\* that some rule concludes is the result of proving the antecedent of the
\* first such rule, also when that result is Unknown.
C16_FirstRuleWins ==
    \A x \in Names :
        (AskedUnknownSymbol(x) /\ Concluding(x) # {})
        => LET first == CHOOSE i \in Concluding(x) : \A j \in Concluding(x) : i <= j
           IN  out.status = verdict(Antecedent(x, first).val)

\* C16 as amended: the answer is the result of proving the antecedent of the
\* first rule concluding the symbol whose antecedent comes out True or False;
\* rules whose antecedent comes out Unknown are passed over, and the answer is
\* Unknown when no rule decides.
C16_FirstDecidingRuleWins ==
    \A x \in Names :
        AskedUnknownSymbol(x)
        => LET deciding == {i \in Concluding(x) : Antecedent(x, i).val # "None"}
               first    == CHOOSE i \in deciding : \A j \in deciding : i <= j
           IN  IF deciding = {} THEN out.status = "Unknown"
               ELSE out.status = verdict(Antecedent(x, first).val)

\* c was asked with the rules a implies c and b implies c, a unknown and b
\* false: the answer comes from the second rule.
C16_Witness ==
    /\ AskedUnknownSymbol("c")
    /\ rules = <<Rule("a", "c"), Rule("b", "c")>>
    /\ facts_true = {}
    /\ facts_false = {"b"}
    /\ out.status = "False (proved)"

\* C17: a tell of a statement that is not an implication prints
\* "Contradiction detected" only when the statement evaluates to False against
\* the facts held before the call; a statement that evaluates to True or to
\* Unknown is not rejected.
C17_RejectedOnlyWhenFalse ==
    [][( /\ cmd'.op = "tell"
         /\ ~cmd'.statement.eq
         /\ parse(cmd'.statement.tokens).expr.type # "Implies"
         /\ out'.status = "Contradiction detected" )
       => _evaluate(self, parse(cmd'.statement.tokens).expr) = "False"]_vars

\* C18: whenever forward_chain, run by a tell, comes to a rule whose
\* antecedent evaluates True, whose consequent does not evaluate True and for
\* which adding the consequent contradicts the facts, it reports the
\* contradiction for that consequent and records the consequent as false:
\* directly after the step the consequent evaluates to False.
C18_ConflictRecordedFalse ==
    [][(cmd'.op = "tell" /\ out'.ran_fc)
       => \A step \in conflict_steps(BeforeChaining(self, cmd'.statement)) :
             /\ step.text \in out'.inference
             /\ step.value = "False"]_vars

\* C19: between clears facts and rules only grow: a tell or an ask removes no
\* name from the true set or from the false set and neither removes nor
\* reorders a stored rule (the old rule list is a prefix of the new one); clear
\* empties all three.
C19_MonotoneBetweenClears ==
    [][/\ cmd'.op \in {"tell", "ask"}
          => /\ facts_true \subseteq facts_true'
             /\ facts_false \subseteq facts_false'
             /\ Len(rules) <= Len(rules')
             /\ SubSeq(rules', 1, Len(rules)) = rules
       /\ cmd'.op = "clear"
          => /\ facts_true' = {}
             /\ facts_false' = {}
             /\ rules' = <<>>]_vars

\* b implies c was told to a store holding a, b and the rule a implies b: the
\* facts and the rule are kept, the new rule stands behind the old one, and c
\* is added.
C19_Witness ==
    /\ Told(<<"b", "implies", "c">>)
    /\ rules = <<Rule("a", "b"), Rule("b", "c")>>
    /\ facts_true = {"a", "b", "c"}
    /\ facts_false = {}

=============================================================================
